---- MODULE Spec2Model ----
(***************************************************************************)
(* A model of bocadillo's routing core (src/bocadillo/routing.py):         *)
(* Route (url, parse, __call__), Router (add_route, match,                 *)
(* get_route_or_404), RoutingMixin.url_for and check_route.                *)
(*                                                                         *)
(* Strings are sequences of one-character strings.  A URL pattern is a     *)
(* sequence of tokens: a literal character, or a replacement field         *)
(* "{name}" (str.format / parse syntax), kept as one token.                *)
(***************************************************************************)
EXTENDS Integers, Sequences, FiniteSets, TLC

\* checks, in last, is the number of check_route calls the operation made.
\* routes: Router._routes, a dict in insertion order: a sequence of
\*         [name, route] entries with distinct names.
\* log:    every Route object created so far, in creation order (history).
\* held:   the result of the latest Router.match, as the caller holds it.
\* last:   the latest operation, its arguments and its outcome.
\* scan:   the dict iterator of a Router.match in progress in one thread
\*         while another thread may register routes.
\* call:   the dispatch in progress: Route.__call__ suspended at its await
\*         while the handler it started has not returned.
VARIABLES routes, log, held, last, scan, call

vars == <<routes, log, held, last, scan, call>>

----------------------------------------------------------------------------
(* Bounds of the model.                                                    *)

MaxBody == 3

MaxPathLen == 4

MaxValLen == 2

MaxCalls == 3

MaxNamed == 2

----------------------------------------------------------------------------
(* Strings and patterns.                                                   *)

Slash == "/"

FieldTokens == {"{x}", "{y}", "{req}", "{res}", "{name}", "{self}"}

IsField(t) == t \in FieldTokens

\* The field_name that string.Formatter().parse / parse yield for a
\* replacement field token.
FieldName(t) ==
    CASE t = "{x}" -> "x"
      [] t = "{y}" -> "y"
      [] t = "{req}" -> "req"
      [] t = "{res}" -> "res"
      [] t = "{name}" -> "name"
      [] t = "{self}" -> "self"

\* str.lower() on one character (the letters the model uses).
LowerChar(c) ==
    CASE c = "A" -> "a"
      [] c = "B" -> "b"
      [] c = "C" -> "c"
      [] c = "D" -> "d"
      [] c = "E" -> "e"
      [] c = "G" -> "g"
      [] c = "L" -> "l"
      [] c = "O" -> "o"
      [] c = "P" -> "p"
      [] c = "S" -> "s"
      [] c = "T" -> "t"
      [] OTHER -> c

\* str.lower()
Lower(s) == [i \in 1..Len(s) |-> LowerChar(s[i])]

SeqsUpTo(S, n) == UNION {[1..k -> S] : k \in 0..n}

Range(s) == {s[i] : i \in 1..Len(s)}

\* pattern.startswith("/")
StartsWithSlash(pattern) == Len(pattern) >= 1 /\ pattern[1] = Slash

\* {name for _, name, _, _ in Formatter().parse(pattern) if name}
RouteParameters(pattern) ==
    {FieldName(pattern[i]) : i \in {j \in 1..Len(pattern) : IsField(pattern[j])}}

NoKwargs == [n \in {} |-> <<>>]

----------------------------------------------------------------------------
(* parse.parse(pattern, path): the pattern is compiled to the regular      *)
(* expression \A...\Z with re.IGNORECASE | re.DOTALL, a literal character  *)
(* to itself, the first occurrence of a field {name} to the lazy group     *)
(* (?P<name>.+?) and a repeated name to the backreference (?P=name).       *)
(* The operators below run the backtracking search of that expression.     *)

NoMatch == [matched |-> FALSE, named |-> NoKwargs]

\* Does s, from position j, start with v (case-insensitively)?
StartsWithAt(s, j, v) ==
    /\ j + Len(v) - 1 <= Len(s)
    /\ \A k \in 1..Len(v) : LowerChar(s[j + k - 1]) = LowerChar(v[k])

RECURSIVE MatchFrom(_, _, _, _, _)
RECURSIVE MatchLazy(_, _, _, _, _, _)

\* Match pattern[i..] against path[j..] under the bindings made so far.
MatchFrom(pattern, i, path, j, named) ==
    IF i > Len(pattern)
    THEN IF j > Len(path) THEN [matched |-> TRUE, named |-> named] ELSE NoMatch
    ELSE IF ~IsField(pattern[i])
    THEN IF j <= Len(path) /\ LowerChar(path[j]) = LowerChar(pattern[i])
         THEN MatchFrom(pattern, i + 1, path, j + 1, named)
         ELSE NoMatch
    ELSE IF FieldName(pattern[i]) \in DOMAIN named
    THEN LET v == named[FieldName(pattern[i])]
         IN  IF StartsWithAt(path, j, v)
             THEN MatchFrom(pattern, i + 1, path, j + Len(v), named)
             ELSE NoMatch
    ELSE MatchLazy(pattern, i, path, j, named, 1)

\* The lazy group .+? at pattern[i]: try k = 1, 2, ... characters.
MatchLazy(pattern, i, path, j, named, k) ==
    IF j + k - 1 > Len(path)
    THEN NoMatch
    ELSE LET r == MatchFrom(pattern, i + 1, path, j + k,
                            named @@ (FieldName(pattern[i]) :> SubSeq(path, j, j + k - 1)))
         IN  IF r.matched THEN r ELSE MatchLazy(pattern, i, path, j, named, k + 1)

\* Mutant of LibParse: no \Z, the pattern may match a prefix of the path.
LibParse_unanchored(pattern, path) ==
    IF \E n \in 0..Len(path) : MatchFrom(pattern, 1, SubSeq(path, 1, n), 1, NoKwargs).matched
    THEN LET n == CHOOSE n \in 0..Len(path) :
                    /\ MatchFrom(pattern, 1, SubSeq(path, 1, n), 1, NoKwargs).matched
                    /\ \A m \in 0..(n - 1) :
                          ~MatchFrom(pattern, 1, SubSeq(path, 1, m), 1, NoKwargs).matched
         IN  MatchFrom(pattern, 1, SubSeq(path, 1, n), 1, NoKwargs)
    ELSE NoMatch

LibParse(pattern, path) == MatchFrom(pattern, 1, path, 1, NoKwargs)

\* Route.parse: result.named, or None.
RouteParse(pattern, path) ==
    LET result == LibParse(pattern, path)
    IN  IF result.matched
        THEN [none |-> FALSE, params |-> result.named]
        ELSE [none |-> TRUE, params |-> NoKwargs]

----------------------------------------------------------------------------
(* Route.url: the pattern formatted with the keyword arguments.            *)

\* The values a keyword argument can have: a str, a sequence of characters,
\* or one of the ints 7 and 10, each a sequence of one token.
Int7 == <<"int 7">>

Int10 == <<"int 10">>

\* str(value), as str.format renders a field: the decimal digits of an int,
\* a str as it is.
StrOf(v) ==
    CASE v = Int7 -> <<"7">>
      [] v = Int10 -> <<"1", "0">>
      [] OTHER -> v

RECURSIVE FormatFrom(_, _, _)

FormatFrom(pattern, i, kwargs) ==
    IF i > Len(pattern) THEN <<>>
    ELSE IF IsField(pattern[i])
    THEN StrOf(kwargs[FieldName(pattern[i])]) \o FormatFrom(pattern, i + 1, kwargs)
    ELSE <<pattern[i]>> \o FormatFrom(pattern, i + 1, kwargs)

\* The parameter of Route.url itself: a keyword argument named self
\* collides with the receiver and the call raises TypeError.
RouteUrlParameters == {"self"}

\* Route.url(self, **kwargs): str.format raises KeyError when a field has
\* no keyword argument and ignores the keyword arguments no field names.
RouteUrl(pattern, kwargs) ==
    IF DOMAIN kwargs \cap RouteUrlParameters # {}
    THEN [error |-> "TypeError", value |-> <<>>]
    ELSE IF RouteParameters(pattern) \subseteq DOMAIN kwargs
    THEN [error |-> "none", value |-> FormatFrom(pattern, 1, kwargs)]
    ELSE [error |-> "KeyError", value |-> <<>>]

----------------------------------------------------------------------------
(* Views and handlers.  A handler is its signature (the names of its       *)
(* positional-or-keyword parameters, in order) and what its body does; a   *)
(* view is a class name and the handlers it has, keyed by attribute name.  *)

None == <<"None">>

M_get == <<"g", "e", "t">>

M_post == <<"p", "o", "s", "t">>

Handler(params, raises) == [params |-> params, raises |-> raises]

\* views.get_handlers(view): the handlers of the view by method name.
get_handlers(view) == view.handlers

\* compat.camel_to_snake: an underscore before every inner capital, then
\* lower case.
RECURSIVE camel_to_snake(_)

camel_to_snake(s) ==
    IF Len(s) = 0 THEN <<>>
    ELSE LET c == s[Len(s)]
             front == camel_to_snake(SubSeq(s, 1, Len(s) - 1))
         IN  IF Len(s) > 1 /\ LowerChar(c) # c
             THEN front \o <<"_", LowerChar(c)>>
             ELSE front \o <<LowerChar(c)>>

\* The call handler(req, res, **kwargs) of a Python function whose
\* parameters are params: TypeError unless req and res bind the first two
\* parameters and kwargs names exactly the others; else the body runs.
CallHandler(handler, kwargs) ==
    LET params == handler.params
        rest == {params[i] : i \in 3..Len(params)}
    IN  IF Len(params) < 2 THEN "TypeError"
        ELSE IF \E k \in DOMAIN kwargs : k \in {params[1], params[2]} THEN "TypeError"
        ELSE IF \E k \in DOMAIN kwargs : k \notin rest THEN "TypeError"
        ELSE IF \E p \in rest : p \notin DOMAIN kwargs THEN "TypeError"
        ELSE handler.raises

\* The parameters of Route.__call__ itself: a keyword argument of one of
\* these names collides with the positional self, req or res, and the
\* call route(req, res, **kwargs) raises TypeError before its body runs.
RouteCallParameters == {"self", "req", "res"}

\* Mutant of RouteCall: the handler is awaited inside the try block.
RouteCall_await_in_try(route, method, kwargs) ==
    LET attr == Lower(method)
    IN  IF DOMAIN kwargs \cap RouteCallParameters # {}
        THEN [error |-> "TypeError", invoked |-> <<>>]
        ELSE IF attr \notin DOMAIN route.view.handlers
        THEN [error |-> "HTTPError405", invoked |-> <<>>]
        ELSE LET e == CallHandler(route.view.handlers[attr], kwargs)
             IN  [error |-> IF e = "AttributeError" THEN "HTTPError405" ELSE e,
                  invoked |-> <<[attr |-> attr, kwargs |-> kwargs]>>]

\* Route.__call__(self, req, res, **kwargs): the handler is the view's
\* attribute req.method.lower(); AttributeError becomes HTTPError(405),
\* else the handler is awaited outside the try block.  invoked lists the
\* handler calls made.
RouteCall(route, method, kwargs) ==
    LET attr == Lower(method)
    IN  IF DOMAIN kwargs \cap RouteCallParameters # {}
        THEN [error |-> "TypeError", invoked |-> <<>>]
        ELSE IF attr \notin DOMAIN route.view.handlers
        THEN [error |-> "HTTPError405", invoked |-> <<>>]
        ELSE [error |-> CallHandler(route.view.handlers[attr], kwargs),
              invoked |-> <<[attr |-> attr, kwargs |-> kwargs]>>]

----------------------------------------------------------------------------
(* check_route                                                             *)

\* handler_parameters: the signature without "self", as a list.
HandlerParameters(handler) ==
    SelectSeq(handler.params, LAMBDA p : p # "self")

\* The two loops of check_route over one handler.
HandlerAgrees(pattern, handler) ==
    LET hp == HandlerParameters(handler)
    IN  /\ \A rp \in RouteParameters(pattern) : rp \in Range(hp)
        /\ \A i \in 3..Len(hp) : hp[i] \in RouteParameters(pattern)

\* Mutant of check_route: the leading slash is not checked.
check_route_without_slash_test(pattern, view) ==
    IF \A m \in DOMAIN get_handlers(view) :
           HandlerAgrees(pattern, get_handlers(view)[m])
    THEN "none"
    ELSE "RouteDeclarationError"

check_route(pattern, view) ==
    IF ~StartsWithSlash(pattern) THEN "RouteDeclarationError"
    ELSE IF \A m \in DOMAIN get_handlers(view) :
                HandlerAgrees(pattern, get_handlers(view)[m])
    THEN "none"
    ELSE "RouteDeclarationError"

----------------------------------------------------------------------------
(* Router                                                                  *)

Route(pattern, view, name, id) ==
    [pattern |-> pattern, view |-> view, name |-> name, id |-> id]

HasName(rs, name) == \E i \in 1..Len(rs) : rs[i].name = name

\* Mutant of Put: a new key goes first.
Put_new_key_first(rs, name, route) ==
    IF HasName(rs, name)
    THEN [i \in 1..Len(rs) |->
            IF rs[i].name = name THEN [name |-> name, route |-> route] ELSE rs[i]]
    ELSE <<[name |-> name, route |-> route]>> \o rs

\* Mutant of Put: self._routes.setdefault(name, route).
Put_setdefault(rs, name, route) ==
    IF HasName(rs, name) THEN rs ELSE Append(rs, [name |-> name, route |-> route])

\* self._routes[name] = route: a new key goes last, an existing key keeps
\* its place and gets the new value.
Put(rs, name, route) ==
    IF HasName(rs, name)
    THEN [i \in 1..Len(rs) |->
            IF rs[i].name = name THEN [name |-> name, route |-> route] ELSE rs[i]]
    ELSE Append(rs, [name |-> name, route |-> route])

\* Mutant of EffectiveName: the namespace is not prefixed.
EffectiveName_without_namespace(view, name, namespace) ==
    IF name = None THEN camel_to_snake(view.cls) ELSE name

\* The name add_route registers the route under.
EffectiveName(view, name, namespace) ==
    LET n == IF name = None THEN camel_to_snake(view.cls) ELSE name
    IN  IF namespace # None THEN namespace \o <<":">> \o n ELSE n

\* Mutant of add_route: the route is stored before check_route runs.
add_route_store_first(rs, view, pattern, name, namespace, id) ==
    LET n == EffectiveName(view, name, namespace)
        route == Route(pattern, view, n, id)
    IN  IF check_route(pattern, view) # "none"
        THEN [error |-> "RouteDeclarationError", made |-> <<>>,
              routes |-> Put(rs, n, route), checks |-> 1]
        ELSE [error |-> "none", made |-> <<route>>, routes |-> Put(rs, n, route),
              checks |-> 1]

\* Mutant of add_route: the route is stored under the name as it was
\* before the namespace was put in front.
add_route_key_unprefixed(rs, view, pattern, name, namespace, id) ==
    LET n == EffectiveName(view, name, namespace)
        key == EffectiveName(view, name, None)
        route == Route(pattern, view, n, id)
    IN  IF check_route(pattern, view) # "none"
        THEN [error |-> "RouteDeclarationError", made |-> <<>>, routes |-> rs,
              checks |-> 1]
        ELSE [error |-> "none", made |-> <<route>>, routes |-> Put(rs, key, route),
              checks |-> 1]

\* Mutant of add_route: check_route is not called.
add_route_unchecked(rs, view, pattern, name, namespace, id) ==
    LET n == EffectiveName(view, name, namespace)
        route == Route(pattern, view, n, id)
    IN  [error |-> "none", made |-> <<route>>, routes |-> Put(rs, n, route),
         checks |-> 0]

\* Router.add_route: its outcome, the route it returns, the registry it
\* leaves and the number of check_route calls it made; id is the identity
\* of the Route object it would create.
add_route(rs, view, pattern, name, namespace, id) ==
    LET n == EffectiveName(view, name, namespace)
        route == Route(pattern, view, n, id)
    IN  IF check_route(pattern, view) # "none"
        THEN [error |-> "RouteDeclarationError", made |-> <<>>, routes |-> rs,
              checks |-> 1]
        ELSE [error |-> "none", made |-> <<route>>, routes |-> Put(rs, n, route),
              checks |-> 1]

NoRouteMatch == [none |-> TRUE, route |-> <<>>, params |-> NoKwargs]

RECURSIVE MatchScan(_, _, _)

\* The loop of Router.match from the i-th entry on.
MatchScan(rs, i, path) ==
    IF i > Len(rs) THEN NoRouteMatch
    ELSE LET params == RouteParse(rs[i].route.pattern, path)
         IN  IF ~params.none
             THEN [none |-> FALSE, route |-> <<rs[i].route>>, params |-> params.params]
             ELSE MatchScan(rs, i + 1, path)

\* Router.match
match(rs, path) == MatchScan(rs, 1, path)

\* Router.get_route_or_404
get_route_or_404(rs, name) ==
    IF HasName(rs, name)
    THEN [error |-> "none",
          route |-> <<(CHOOSE e \in Range(rs) : e.name = name).route>>]
    ELSE [error |-> "HTTPError404", route |-> <<>>]

\* The parameters of url_for itself: a keyword argument of one of these
\* names collides with self or name, and the call url_for(name, **kwargs)
\* raises TypeError before its body runs.
UrlForParameters == {"self", "name"}

\* RoutingMixin.url_for(self, name, **kwargs)
url_for(rs, name, kwargs) ==
    LET found == get_route_or_404(rs, name)
    IN  IF DOMAIN kwargs \cap UrlForParameters # {}
        THEN [error |-> "TypeError", value |-> <<>>]
        ELSE IF found.error # "none"
        THEN [error |-> found.error, value |-> <<>>]
        ELSE RouteUrl(found.route[1].pattern, kwargs)

----------------------------------------------------------------------------
(* The state machine: one action per operation.                            *)

\* No match is in progress.
NoScan == [active |-> FALSE]

\* No dispatch is in progress.
NoCall == [active |-> FALSE]

Init ==
    /\ routes = <<>>
    /\ log = <<>>
    /\ held = NoRouteMatch
    /\ last = [op |-> "init"]
    /\ scan = NoScan
    /\ call = NoCall

\* Mutant of AddRoute: a name already registered keeps its Route object,
\* whose pattern and view are assigned anew; every holder of the object
\* sees the change.
AddRoute_mutates_existing(view, pattern, name, namespace) ==
    /\ Len(log) < MaxCalls
    /\ LET n == EffectiveName(view, name, namespace)
           r == add_route(routes, view, pattern, name, namespace, Len(log) + 1)
           Renew(route) == IF route.name = n
                           THEN [route EXCEPT !.pattern = pattern, !.view = view]
                           ELSE route
       IN  IF r.error = "none" /\ HasName(routes, n)
           THEN /\ routes' = [i \in 1..Len(routes) |->
                                [routes[i] EXCEPT !.route = Renew(@)]]
                /\ log' = [i \in 1..Len(log) |-> Renew(log[i])]
                /\ held' = IF held.none THEN held
                            ELSE [held EXCEPT !.route = <<Renew(@[1])>>]
                /\ last' = [op |-> "add_route", view |-> view, pattern |-> pattern,
                            given |-> name, namespace |-> namespace, name |-> n,
                            error |-> "none",
                            route |-> <<Renew(get_route_or_404(routes, n).route[1])>>,
                            checks |-> 1]
                /\ call' = IF call.active
                            THEN [call EXCEPT !.route = Renew(@)]
                            ELSE call
                /\ UNCHANGED scan
           ELSE /\ routes' = r.routes
                /\ log' = log \o r.made
                /\ last' = [op |-> "add_route", view |-> view, pattern |-> pattern,
                            given |-> name, namespace |-> namespace, name |-> n,
                            error |-> r.error, route |-> r.made, checks |-> r.checks]
                /\ UNCHANGED <<held, scan, call>>

\* Router.add_route(view, pattern, name=name, namespace=namespace)
AddRoute(view, pattern, name, namespace) ==
    /\ Len(log) < MaxCalls
    /\ LET r == add_route(routes, view, pattern, name, namespace, Len(log) + 1)
       IN  /\ routes' = r.routes
           /\ log' = log \o r.made
           /\ last' = [op |-> "add_route", view |-> view, pattern |-> pattern,
                       given |-> name, namespace |-> namespace,
                       name |-> EffectiveName(view, name, namespace),
                       error |-> r.error, route |-> r.made, checks |-> r.checks]
           /\ scan' = IF scan.active
                       THEN [scan EXCEPT !.seen = @ \cup {r.routes}]
                       ELSE scan
    /\ UNCHANGED <<held, call>>

\* Mutant of Match: the route that matched is moved to the front of the
\* registry.
Match_moves_hit_first(path) ==
    LET hit == match(routes, path)
    IN  /\ held' = hit
        /\ last' = [op |-> "match", path |-> path, result |-> hit, checks |-> 0]
        /\ routes' = IF hit.none
                      THEN routes
                      ELSE <<[name |-> hit.route[1].name, route |-> hit.route[1]]>>
                           \o SelectSeq(routes, LAMBDA e : e.name # hit.route[1].name)
        /\ UNCHANGED <<log, scan, call>>

\* Router.match(path); the caller keeps the RouteMatch (or None).
Match(path) ==
    /\ held' = match(routes, path)
    /\ last' = [op |-> "match", path |-> path, result |-> match(routes, path),
                checks |-> 0]
    /\ UNCHANGED <<routes, log, scan, call>>

\* Router.match(path) in a thread of its own, up to the creation of the
\* iterator of self._routes.items(): the iterator notes the size of the
\* dict (di_used) and starts before the first entry.  seen collects the
\* registries the dict has been since.
MatchBegin(path) ==
    /\ ~scan.active
    /\ scan' = [active |-> TRUE, path |-> path, di_used |-> Len(routes),
                 pos |-> 0, seen |-> {routes}]
    /\ UNCHANGED <<routes, log, held, last, call>>

\* One round of the for loop of Router.match: the iterator's next raises
\* RuntimeError (dictionary changed size during iteration) when the dict
\* no longer has di_used entries and ends the loop after the last entry;
\* else the loop body parses the path against the entry's route.
MatchStep ==
    /\ scan.active
    /\ IF Len(routes) # scan.di_used
       THEN /\ last' = [op |-> "match", path |-> scan.path, error |-> "RuntimeError",
                        result |-> NoRouteMatch, seen |-> scan.seen, checks |-> 0]
            /\ scan' = NoScan
            /\ UNCHANGED held
       ELSE IF scan.pos >= Len(routes)
       THEN /\ last' = [op |-> "match", path |-> scan.path, error |-> "none",
                        result |-> NoRouteMatch, seen |-> scan.seen, checks |-> 0]
            /\ scan' = NoScan
            /\ held' = NoRouteMatch
       ELSE LET route == routes[scan.pos + 1].route
                params == RouteParse(route.pattern, scan.path)
                found == [none |-> FALSE, route |-> <<route>>, params |-> params.params]
            IN  IF ~params.none
                THEN /\ last' = [op |-> "match", path |-> scan.path, error |-> "none",
                                 result |-> found, seen |-> scan.seen, checks |-> 0]
                     /\ scan' = NoScan
                     /\ held' = found
                ELSE /\ scan' = [scan EXCEPT !.pos = @ + 1]
                     /\ UNCHANGED <<held, last>>
    /\ UNCHANGED <<routes, log, call>>

\* The caller of match forwards the request to the route it holds:
\* await route(req, res, **params), with req.method = method, up to the
\* await of the handler.  A TypeError of the call of route or of the
\* handler, and the HTTPError(405) of a missing handler, are raised before
\* anything is awaited and end the dispatch at once; else the handler has
\* been started and Route.__call__ is suspended at its await, where the
\* event loop runs other operations.  began is the number of Route
\* objects made when the handler starts.
Dispatch(method) ==
    /\ ~held.none
    /\ ~call.active
    /\ LET r == RouteCall(held.route[1], method, held.params)
       IN  IF r.invoked = <<>> \/ r.error = "TypeError"
           THEN /\ last' = [op |-> "dispatch", route |-> held.route[1],
                            method |-> method, kwargs |-> held.params,
                            result |-> r, began |-> Len(log), checks |-> 0]
                /\ UNCHANGED call
           ELSE /\ call' = [active |-> TRUE, route |-> held.route[1],
                            method |-> method, kwargs |-> held.params,
                            began |-> Len(log)]
                /\ UNCHANGED last
    /\ UNCHANGED <<routes, log, held, scan>>

\* The handler returns or raises, and with it Route.__call__: the
\* dispatch ends with the handler's outcome.
DispatchReturn ==
    /\ call.active
    /\ last' = [op |-> "dispatch", route |-> call.route, method |-> call.method,
                kwargs |-> call.kwargs,
                result |-> RouteCall(call.route, call.method, call.kwargs),
                began |-> call.began, checks |-> 0]
    /\ call' = NoCall
    /\ UNCHANGED <<routes, log, held, scan>>

\* Router.get_route_or_404(name)
GetRoute(name) ==
    /\ last' = [op |-> "get_route_or_404", name |-> name,
                result |-> get_route_or_404(routes, name), checks |-> 0]
    /\ UNCHANGED <<routes, log, held, scan, call>>

\* RoutingMixin.url_for(name, **kwargs)
UrlFor(name, kwargs) ==
    /\ last' = [op |-> "url_for", name |-> name, kwargs |-> kwargs,
                result |-> url_for(routes, name, kwargs), checks |-> 0]
    /\ UNCHANGED <<routes, log, held, scan, call>>

\* Route(pattern, view, name).parse(path) on a route of its own.
Parse(pattern, path) ==
    /\ last' = [op |-> "parse", pattern |-> pattern, path |-> path,
                result |-> RouteParse(pattern, path)]
    /\ UNCHANGED <<routes, log, held, scan, call>>

\* Route(pattern, view, name).url(**kwargs) on a route of its own.
Url(pattern, kwargs) ==
    /\ last' = [op |-> "url", pattern |-> pattern, kwargs |-> kwargs,
                result |-> RouteUrl(pattern, kwargs)]
    /\ UNCHANGED <<routes, log, held, scan, call>>

----------------------------------------------------------------------------
(* Spec: a router under registration and lookups.                          *)

ViewItem ==
    [cls |-> <<"A", "b">>,
     handlers |-> (M_get :> Handler(<<"req", "res", "x">>, "none"))
               @@ (M_post :> Handler(<<"req", "res", "x">>, "AttributeError"))]

ViewIndex ==
    [cls |-> <<"B", "a">>,
     handlers |-> (M_get :> Handler(<<"req", "res">>, "none"))]

RouterViews == {ViewItem, ViewIndex}

RouterPatterns == {<<"/">>, <<"/", "{x}">>, <<"/", "a", "/", "{x}">>, <<"a">>}

RouterNames == {<<"a">>, <<"b">>}

LookupNames == RouterNames \cup {<<"c">>}

RouterPaths == {<<"/">>, <<"/", "a">>, <<"/", "a", "/", "a">>, <<"b">>}

Methods == {<<"G", "E", "T">>, <<"P", "o", "s", "t">>,
            <<"D", "E", "L", "E", "T", "E">>}

RouterKwargs == {NoKwargs, "x" :> <<"a">>}

Next ==
    \/ \E view \in RouterViews, pattern \in RouterPatterns, name \in RouterNames :
          AddRoute(view, pattern, name, None)
    \/ \E path \in RouterPaths : Match(path)
    \/ \E name \in LookupNames : GetRoute(name)
    \/ \E name \in LookupNames, kwargs \in RouterKwargs : UrlFor(name, kwargs)

Spec == Init /\ [][Next]_vars

----------------------------------------------------------------------------
(* TrafficSpec: the router of Spec with requests dispatched on the event   *)
(* loop: between the start of a handler and its return the loop runs any   *)
(* other operation, registration included.                                 *)

TrafficNext ==
    \/ \E view \in RouterViews, pattern \in RouterPatterns, name \in RouterNames :
          Len(log) < MaxNamed /\ AddRoute(view, pattern, name, None)
    \/ \E path \in RouterPaths : Match(path)
    \/ \E method \in Methods : Dispatch(method)
    \/ DispatchReturn
    \/ \E name \in LookupNames : GetRoute(name)
    \/ \E name \in LookupNames, kwargs \in RouterKwargs : UrlFor(name, kwargs)

TrafficSpec == Init /\ [][TrafficNext]_vars

----------------------------------------------------------------------------
(* DeclSpec: the first registration on a fresh router, for every view and  *)
(* pattern of DeclViews and DeclPatterns, then matching and dispatch.      *)

DeclSignatures ==
    {<<"req", "res">>, <<"req", "res", "x">>, <<"req", "res", "y">>,
     <<"req", "res", "x", "y">>, <<"x", "res">>}

DeclHandlers == {Handler(sig, "none") : sig \in DeclSignatures}

DeclViews ==
    {[cls |-> <<"A", "b">>, handlers |-> hs] :
        hs \in UNION {[ms -> DeclHandlers] : ms \in SUBSET {M_get, M_post}}}

DeclPatterns ==
    {<<>>, <<"a">>, <<"{x}">>, <<"a", "/", "{x}">>,
     <<"/">>, <<"/", "a">>, <<"/", "{x}">>, <<"/", "{y}">>, <<"/", "{req}">>,
     <<"/", "{x}", "/", "{y}">>, <<"/", "{x}", "/", "{x}">>,
     <<"/", "{x}", "/", "{res}">>}

DeclPaths == {<<"/">>, <<"/", "a">>, <<"/", "a", "/", "b">>, <<"a", "/", "b">>}

DeclNext ==
    \/ \E view \in DeclViews, pattern \in DeclPatterns :
          routes = <<>> /\ AddRoute(view, pattern, <<"a">>, None)
    \/ \E path \in DeclPaths : Match(path)
    \/ \E method \in Methods : Dispatch(method)
    \/ DispatchReturn

DeclSpec == Init /\ [][DeclNext]_vars

----------------------------------------------------------------------------
(* ConcSpec: one thread registers routes while another runs Router.match,  *)
(* one round of its loop at a time.                                        *)

ConcPatterns == {<<"/">>, <<"/", "{x}">>}

ConcPaths == {<<"/">>, <<"/", "a">>}

ConcNext ==
    \/ \E view \in RouterViews, pattern \in ConcPatterns, name \in RouterNames :
          AddRoute(view, pattern, name, None)
    \/ \E path \in ConcPaths : MatchBegin(path)
    \/ MatchStep

ConcSpec == Init /\ [][ConcNext]_vars

----------------------------------------------------------------------------
(* NameSpec: registration with and without a name and a namespace, and     *)
(* lookups by name: get_route_or_404 and url_for.                          *)

ViewPair ==
    [cls |-> <<"A", "b", "C", "d">>,
     handlers |-> (M_get :> Handler(<<"req", "res", "x", "y">>, "none"))]

ViewGreet ==
    [cls |-> <<"C", "d">>,
     handlers |-> (M_get :> Handler(<<"req", "res", "name">>, "none"))]

NameViews == {ViewItem, ViewPair, ViewGreet}

NamePatterns ==
    {<<"/", "{x}">>, <<"/", "{x}", "/", "{y}">>, <<"/", "{name}">>, <<"a">>}

GivenNames == {None, <<"a">>}

Namespaces == {None, <<"n">>}

\* The names a route of NameSpec can be registered under, and one more.
NameLookups ==
    {EffectiveName(view, name, namespace) :
        view \in NameViews, name \in GivenNames, namespace \in Namespaces}
    \cup {<<"c">>}

UrlNames == {<<"a">>, <<"n", ":", "a">>, <<"c">>}

NameKwargs ==
    {NoKwargs,
     "x" :> <<"a">>,
     "x" :> Int7,
     "y" :> <<"b">>,
     ("x" :> <<"a">>) @@ ("y" :> Int10),
     "name" :> <<"b">>}

NameNext ==
    \/ \E view \in NameViews, pattern \in NamePatterns,
          name \in GivenNames, namespace \in Namespaces :
          Len(log) < MaxNamed /\ AddRoute(view, pattern, name, namespace)
    \/ \E name \in NameLookups : GetRoute(name)
    \/ \E name \in UrlNames, kwargs \in NameKwargs : UrlFor(name, kwargs)

NameSpec == Init /\ [][NameNext]_vars

----------------------------------------------------------------------------
(* ParseSpec: Route.parse and Route.url on every pattern "/" + body of at  *)
(* most MaxBody tokens, every path of at most MaxPathLen characters and    *)
(* every keyword mapping with values of at most MaxValLen characters.      *)

Tokens == {"/", "a", "A", "{x}", "{y}", "{self}"}

PathChars == {"/", "a", "A"}

ValChars == {"/", "a", "A"}

GenPatterns == {<<"/">> \o body : body \in SeqsUpTo(Tokens, MaxBody)}

GenPaths == SeqsUpTo(PathChars, MaxPathLen)

\* The sets of keyword names a call of Route.url is given.
KeySets == SUBSET {"x", "y"} \cup {{"self"}}

GenKwargs ==
    UNION {[ns -> SeqsUpTo(ValChars, MaxValLen)] : ns \in KeySets}

\* The calls to make: one Route method call per behaviour.
ParseInit ==
    /\ routes = <<>>
    /\ log = <<>>
    /\ held = NoRouteMatch
    /\ scan = NoScan
    /\ call = NoCall
    /\ \/ \E pattern \in GenPatterns, path \in GenPaths :
             last = [op |-> "call parse", pattern |-> pattern, path |-> path]
       \/ \E pattern \in GenPatterns, kwargs \in GenKwargs :
             last = [op |-> "call url", pattern |-> pattern, kwargs |-> kwargs]

ParseNext ==
    \/ last.op = "call parse" /\ Parse(last.pattern, last.path)
    \/ last.op = "call url" /\ Url(last.pattern, last.kwargs)

ParseSpec == ParseInit /\ [][ParseNext]_vars

----------------------------------------------------------------------------
(* Notions the properties use.                                             *)

\* The Route objects the registrations so far have left current: for each
\* name, the one created last under it.
Current ==
    {log[i] : i \in {k \in 1..Len(log) :
                        \A j \in (k + 1)..Len(log) : log[j].name # log[k].name}}

\* The Route objects a later registration under the same name replaced.
Replaced == Range(log) \ Current

\* The handler's parameter names once the receiver and the first two
\* positional parameters are left out.
RemainingParameters(handler) ==
    LET ps == SelectSeq(handler.params, LAMBDA p : p # "self")
    IN  {ps[i] : i \in 3..Len(ps)}

\* The declaration rule as the specification states it.
DeclarationConsistent(pattern, view) ==
    /\ StartsWithSlash(pattern)
    /\ \A m \in DOMAIN view.handlers :
          RemainingParameters(view.handlers[m]) = RouteParameters(pattern)

\* The placeholders of one segment of the pattern (the tokens between two
\* "/") all have the same name.  The spec's placeholder is a whole path
\* segment, which is one such pattern.
OneNamePerSegment(pattern) ==
    \A i, j \in 1..Len(pattern) :
        (/\ i < j
         /\ IsField(pattern[i])
         /\ IsField(pattern[j])
         /\ \A k \in i..j : pattern[k] # Slash) => pattern[i] = pattern[j]

NoSlashIn(v) == \A i \in 1..Len(v) : v[i] # Slash

----------------------------------------------------------------------------
(* C1 .. C10                                                               *)

\* C1: for every route in the registry and every path the route parses,
\* the call handler(request, response, **parameters) of every handler of
\* the route's view binds its arguments: no TypeError for a missing,
\* unexpected or doubly supplied argument.
C1_DispatchBindsArguments ==
    \A e \in Range(routes) : \A path \in DeclPaths :
        LET parsed == RouteParse(e.route.pattern, path)
            hs == get_handlers(e.route.view)
        IN  ~parsed.none =>
                \A m \in DOMAIN hs :
                    /\ CallHandler(hs[m], parsed.params) # "TypeError"
                    /\ RouteCall(e.route, m, parsed.params).error # "TypeError"

\* C2: register succeeds if and only if the pattern begins with "/" and
\* every handler's remaining parameters are exactly the pattern's
\* placeholders; otherwise it fails with RouteDeclarationError.
C2_RegisterIffConsistent ==
    last.op = "add_route" =>
        /\ last.error \in {"none", "RouteDeclarationError"}
        /\ (last.error = "none") <=> DeclarationConsistent(last.pattern, last.view)

\* C3: a register call that fails with RouteDeclarationError leaves the
\* registry as it was: same entries in the same order, so match and
\* resolve answer as before.
C3_FailedRegisterKeepsRegistry ==
    [][(last'.op = "add_route" /\ last'.error = "RouteDeclarationError") =>
          /\ routes' = routes
          /\ log' = log
          /\ \A path \in RouterPaths : match(routes', path) = match(routes, path)
          /\ \A name \in LookupNames :
                get_route_or_404(routes', name) = get_route_or_404(routes, name)]_vars

C3_Witness ==
    /\ last.op = "add_route"
    /\ last.error = "RouteDeclarationError"
    /\ HasName(routes, last.name)

\* C4: match(path) returns the earliest created of the current routes
\* that parse the path, with its parameters, and none exactly when no
\* current route parses the path.
C4_MatchReturnsEarliestCreated ==
    \A path \in RouterPaths :
        LET cands == {r \in Current : ~RouteParse(r.pattern, path).none}
            got == match(routes, path)
        IN  IF cands = {}
            THEN got.none
            ELSE /\ ~got.none
                 /\ got.route[1] \in cands
                 /\ \A r \in cands : got.route[1].id <= r.id
                 /\ got.params = RouteParse(got.route[1].pattern, path).params

\* C5: resolve(n) returns the Route the latest successful register under
\* n created, and fails with HTTPError(404) exactly when there was none; a
\* replaced Route is returned neither by resolve nor by match.
C5_ResolveReturnsLatest ==
    /\ \A name \in LookupNames :
          LET made == {i \in 1..Len(log) : log[i].name = name}
              got == get_route_or_404(routes, name)
          IN  IF made = {}
              THEN got.error = "HTTPError404"
              ELSE /\ got.error = "none"
                   /\ got.route = <<log[CHOOSE i \in made : \A j \in made : j <= i]>>
    /\ \A old \in Replaced :
          /\ \A name \in LookupNames : get_route_or_404(routes, name).route # <<old>>
          /\ \A path \in RouterPaths : match(routes, path).route # <<old>>
    /\ last.op = "get_route_or_404" => last.result = get_route_or_404(routes, last.name)

C5_Witness ==
    /\ last.op = "get_route_or_404"
    /\ last.result.error = "none"
    /\ \E old \in Replaced : old.name = last.name /\ old.pattern # last.result.route[1].pattern

\* C6: dispatch looks the request's method up case-insensitively among the
\* view's handlers: with no such handler it fails with HTTPError(405) and
\* calls no handler; otherwise it calls that handler, once, with the
\* parameters, and no other.
C6_DispatchByMethod ==
    last.op = "dispatch" =>
        LET hs == last.route.view.handlers
            hit == {a \in DOMAIN hs : Lower(a) = Lower(last.method)}
        IN  IF hit = {}
            THEN /\ last.result.error = "HTTPError405"
                 /\ last.result.invoked = <<>>
            ELSE /\ last.result.error # "HTTPError405"
                 /\ Len(last.result.invoked) = 1
                 /\ last.result.invoked[1].attr \in hit
                 /\ last.result.invoked[1].kwargs = last.kwargs

\* C7: an error the handler raises is the outcome of dispatch, unchanged;
\* an AttributeError of the handler is not turned into HTTPError(405).
C7_HandlerErrorPropagates ==
    (last.op = "dispatch" /\ Lower(last.method) \in DOMAIN last.route.view.handlers) =>
        LET h == last.route.view.handlers[Lower(last.method)]
        IN  /\ last.result.error # "HTTPError405"
            /\ last.result.error # "TypeError" => last.result.error = h.raises

C7_Witness ==
    /\ last.op = "dispatch"
    /\ last.method = <<"P", "o", "s", "t">>
    /\ last.result.error = "AttributeError"

\* C8: every route of the registry, and every Route ever created, has a
\* pattern that begins with "/"; register with any other pattern fails
\* with RouteDeclarationError whatever the view.
C8_PatternsStartWithSlash ==
    /\ \A e \in Range(routes) : StartsWithSlash(e.route.pattern)
    /\ \A r \in Range(log) : StartsWithSlash(r.pattern)
    /\ (last.op = "add_route" /\ ~StartsWithSlash(last.pattern)) =>
          (last.error = "RouteDeclarationError" /\ last.route = <<>>)

C8_Witness ==
    /\ last.op = "add_route"
    /\ last.pattern = <<"a", "/", "{x}">>
    /\ last.view.handlers = (M_get :> Handler(<<"req", "res", "x">>, "none"))
    /\ last.error = "RouteDeclarationError"

\* C9: round trip.  For every route whose pattern has placeholders of one
\* name at most in each segment, and every mapping whose keys are exactly
\* the pattern's placeholder names and whose values are strings without
\* special characters (non-empty, without "/"), url(parameters) returns a
\* path and parse of that path returns the mapping.
C9_RoundTripEveryRoute ==
    (/\ last.op = "url"
     /\ OneNamePerSegment(last.pattern)
     /\ DOMAIN last.kwargs = RouteParameters(last.pattern)
     /\ \A n \in DOMAIN last.kwargs : last.kwargs[n] # <<>> /\ NoSlashIn(last.kwargs[n]))
    => /\ last.result.error = "none"
       /\ RouteParse(last.pattern, last.result.value)
             = [none |-> FALSE, params |-> last.kwargs]

\* C10: parse of a pattern beginning with "/" returns none or a mapping
\* whose keys are exactly the pattern's placeholders, and a mapping only
\* when the pattern, with the mapping's values in place of its
\* placeholders, spells the whole path (letter case apart): nothing of the
\* path is left before or after the match.
C10_ParseAnchoredTotal ==
    (last.op = "parse" /\ StartsWithSlash(last.pattern)) =>
        \/ last.result.none /\ last.result.params = NoKwargs
        \/ /\ ~last.result.none
           /\ DOMAIN last.result.params = RouteParameters(last.pattern)
           /\ \A n \in DOMAIN last.result.params : last.result.params[n] # <<>>
           /\ Lower(FormatFrom(last.pattern, 1, last.result.params)) = Lower(last.path)

C10_Witness ==
    /\ last.op = "parse"
    /\ last.pattern = <<"/", "{x}", "/", "{y}">>
    /\ last.path = <<"/", "a", "/", "A">>
    /\ last.result.params = ("x" :> <<"a">>) @@ ("y" :> <<"A">>)

----------------------------------------------------------------------------
(* C11 .. C19                                                              *)

\* The pattern with the string form of kwargs[name] in place of every
\* placeholder {name}.
RECURSIVE Substituted(_, _)

Substituted(pattern, kwargs) ==
    IF pattern = <<>> THEN <<>>
    ELSE (IF IsField(Head(pattern))
          THEN StrOf(kwargs[FieldName(Head(pattern))])
          ELSE <<Head(pattern)>>) \o Substituted(Tail(pattern), kwargs)

\* The route the registry holds under name.
Registered(name) == (CHOOSE e \in Range(routes) : e.name = name).route

\* C11: when parse returns a mapping, the literal parts of the pattern
\* stand in the path character for character, in the same case, and every
\* placeholder is bound to one segment's worth of text: non-empty and
\* without "/".  A path with more segments than the pattern gives none.
C11_PlaceholderBindsOneSegment ==
    (last.op = "parse" /\ StartsWithSlash(last.pattern) /\ ~last.result.none) =>
        /\ FormatFrom(last.pattern, 1, last.result.params) = last.path
        /\ \A n \in DOMAIN last.result.params :
              /\ last.result.params[n] # <<>>
              /\ NoSlashIn(last.result.params[n])

\* C12: url_for(name, parameters) fails with HTTPError(404) when name is
\* not registered; otherwise it is url(parameters) of the route under
\* name: the pattern with every placeholder replaced by the string form
\* of its value when parameters has an entry for every placeholder
\* (entries that name no placeholder change nothing), and KeyError, the
\* missing-parameter failure, when some placeholder has no entry.
C12_UrlSubstitutes ==
    last.op = "url_for" =>
        IF ~HasName(routes, last.name)
        THEN last.result.error = "HTTPError404"
        ELSE IF RouteParameters(Registered(last.name).pattern) \subseteq DOMAIN last.kwargs
        THEN last.result =
                [error |-> "none",
                 value |-> Substituted(Registered(last.name).pattern, last.kwargs)]
        ELSE last.result.error = "KeyError"

\* The names of the registry.
Names(rs) == {rs[i].name : i \in 1..Len(rs)}

\* C13: a successful register stores the route it returns under the
\* effective name and under no other key.  The effective name is the name
\* given, or the default derived from the view when none is given, with
\* "namespace:" in front when a namespace is given; resolve of that name
\* returns the new Route, resolve of every other name (the unprefixed one
\* included) answers as before, and every other entry is as it was.
C13_RegisterUnderEffectiveName ==
    [][(last'.op = "add_route" /\ last'.error = "none") =>
          LET base == IF last'.given = None
                      THEN camel_to_snake(last'.view.cls)
                      ELSE last'.given
              key == IF last'.namespace = None
                     THEN base
                     ELSE last'.namespace \o <<":">> \o base
          IN  /\ Len(last'.route) = 1
              /\ last'.route[1].name = key
              /\ get_route_or_404(routes', key) = [error |-> "none", route |-> last'.route]
              /\ Names(routes') = Names(routes) \cup {key}
              /\ \A e \in Range(routes') : e.name # key => e \in Range(routes)
              /\ \A n \in NameLookups \ {key} :
                    get_route_or_404(routes', n) = get_route_or_404(routes, n)]_vars

C13_Witness ==
    /\ last.op = "add_route"
    /\ last.error = "none"
    /\ last.given = <<"a">>
    /\ last.namespace = <<"n">>
    /\ get_route_or_404(routes, <<"n", ":", "a">>).route = last.route
    /\ get_route_or_404(routes, <<"a">>).error = "none"
    /\ get_route_or_404(routes, <<"a">>).route # last.route

\* The operations that only read the registry.
ReadOps == {"match", "get_route_or_404", "url_for", "dispatch"}

\* C14: match, resolve (found or not), url and dispatch leave the registry
\* as it was: the same names, the same route under each name, in the same
\* order.  The result of a match or a resolve is the answer of the
\* registry it ran on, so the call repeated with no register in between
\* gives the same result.
C14_ReadsKeepRegistry ==
    [][(last'.op \in ReadOps) =>
          /\ routes' = routes
          /\ log' = log
          /\ last'.op = "match" =>
                /\ last'.result = match(routes, last'.path)
                /\ \A path \in RouterPaths : match(routes', path) = match(routes, path)
          /\ last'.op = "get_route_or_404" =>
                /\ last'.result = get_route_or_404(routes, last'.name)
                /\ \A name \in LookupNames :
                      get_route_or_404(routes', name) = get_route_or_404(routes, name)]_vars

C14_Witness ==
    /\ last.op = "match"
    /\ Len(routes) = 2
    /\ ~last.result.none
    /\ last.result.route[1] = routes[2].route

\* C15: check_route runs once in every register call, before the route is
\* stored, and in no other operation: RouteDeclarationError is the outcome
\* of a register call only, exactly when check_route rejects the pattern
\* and view, and then no route is made; every route of the registry has
\* passed check_route; match, resolve, url_for and dispatch make no
\* check_route call and never end in RouteDeclarationError (match ends in
\* no error at all).
C15_ValidatedOnceAtRegister ==
    /\ last.op = "add_route" =>
          /\ last.checks = 1
          /\ last.error \in {"none", "RouteDeclarationError"}
          /\ (last.error = "RouteDeclarationError")
                <=> (check_route(last.pattern, last.view) # "none")
          /\ (last.error = "RouteDeclarationError") <=> (last.route = <<>>)
    /\ \A e \in Range(routes) : check_route(e.route.pattern, e.route.view) = "none"
    /\ last.op \in ReadOps => last.checks = 0
    /\ last.op \in ReadOps \ {"match"} =>
          last.result.error # "RouteDeclarationError"

C15_Witness ==
    /\ last.op = "dispatch"
    /\ last.result.error = "AttributeError"
    /\ Len(routes) = 2

\* C16: a match that runs while routes are registered completes without
\* failure, and its result is what match returns on one of the registries
\* the router has been during the match: the one before or the one after
\* a registration, be it of a new name or of a name already present.
C16_MatchSeesSnapshot ==
    (last.op = "match") =>
        /\ last.error = "none"
        /\ \E rs \in last.seen : last.result = match(rs, last.path)

\* C17: a Route never changes once created: every Route object made so
\* far has the pattern, view and name it was made with after every
\* operation.  A successful register makes a new Route object, also under
\* a name already registered, and replaces the registry entry; the
\* RouteMatch a caller holds keeps its Route, and dispatch on it calls the
\* view that Route was made with.
C17_RoutesImmutable ==
    [][/\ Len(log') >= Len(log)
       /\ \A i \in 1..Len(log) : log'[i] = log[i]
       /\ \A i \in 1..Len(log') : log'[i].id = i
       /\ \A e \in Range(routes') : e.route = log'[e.route.id]
       /\ (last'.op = "add_route" /\ last'.error = "none" /\ last' # last) =>
             /\ last'.route = <<log'[Len(log')]>>
             /\ Len(log') = Len(log) + 1
             /\ last'.route[1].pattern = last'.pattern
             /\ last'.route[1].view = last'.view
             /\ held' = held
       /\ ~held'.none => held'.route[1] = log'[held'.route[1].id]
       /\ last'.op = "dispatch" =>
             /\ last'.route = log[last'.route.id]
             /\ last'.result = RouteCall(log[last'.route.id], last'.method, last'.kwargs)
       /\ call'.active =>
             /\ call'.route = log'[call'.route.id]
             /\ call.active => call' = call]_vars

C17_Witness ==
    /\ last.op = "dispatch"
    /\ last.began < Len(log)
    /\ last.route \in Replaced
    /\ last.result.error = "none"
    /\ \E e \in Range(routes) :
          /\ e.name = last.route.name
          /\ e.route.pattern # last.route.pattern
          /\ e.route.view # last.route.view

\* C18: after every step, every registry entry is keyed by the name of the
\* route it holds, which is the effective name of the register call that
\* made the route; the registry has one entry for each name a register
\* call ever succeeded under, and no more; and no step removes a name.
C18_KeyedByRouteName ==
    [][/\ \A i \in 1..Len(routes') : routes'[i].name = routes'[i].route.name
       /\ \A i, j \in 1..Len(routes') : routes'[i].name = routes'[j].name => i = j
       /\ Names(routes') = {log'[i].name : i \in 1..Len(log')}
       /\ Names(routes) \subseteq Names(routes')
       /\ (last'.op = "add_route" /\ last'.error = "none") =>
             /\ last'.route[1].name = last'.name
             /\ [name |-> last'.name, route |-> last'.route[1]] \in Range(routes')]_vars

C18_Witness ==
    /\ Len(log) = 2
    /\ Len(routes) = 1
    /\ routes[1].name = <<"n", ":", "a">>
    /\ routes[1].route = log[2]
    /\ log[1].pattern # log[2].pattern

\* C19: a successful register under a name the registry does not have
\* leaves the result of match as it was for every path that matched before
\* the call: the same route with the same parameters (the new route is
\* tried after all the others).  Only a path that matched no route before
\* can get another result.
C19_NewNameKeepsMatches ==
    [][(/\ last'.op = "add_route"
        /\ last'.error = "none"
        /\ ~HasName(routes, last'.name)) =>
          /\ HasName(routes', last'.name)
          /\ \A path \in RouterPaths :
                ~match(routes, path).none => match(routes', path) = match(routes, path)]_vars

C19_Witness ==
    /\ last.op = "add_route"
    /\ last.error = "none"
    /\ Len(routes) = 2
    /\ Len(log) = 2
    /\ routes[2].route = last.route[1]
    /\ ~RouteParse(routes[2].route.pattern, <<"/", "a", "/", "a">>).none
    /\ match(routes, <<"/", "a", "/", "a">>).route = <<routes[1].route>>
    /\ match(routes, <<"/">>).none

====
